---- MODULE Spec2Model ----
(***************************************************************************)
(* Verification model of src/app.py: a Streamlit page that loads a         *)
(* pickled classifier once per process (load_model under                   *)
(* st.cache_resource), renders a patient form, and on submission builds a  *)
(* one-row record, calls model.predict / model.predict_proba and displays  *)
(* the result.  clean_famhist is the column normaliser the pickled         *)
(* pipeline refers to.                                                     *)
(*                                                                         *)
(* Two specifications:                                                     *)
(*   Spec      - the script, run by several sessions of one process.       *)
(*   SpecClean - clean_famhist applied to one-row tables.                  *)
(***************************************************************************)
EXTENDS Integers, Sequences, FiniteSets, TLC

VARIABLES
    \* ---- process-wide state (Spec) ----
    disk,        \* what is at "Model3.pkl": "absent", "corrupt" or "valid"
    cache,       \* st.cache_resource entry of load_model: <<>> or <<[value, msgs]>>
    lock,        \* the sessions holding the cache's compute lock
    existsCalls, \* number of os.path.exists calls made so far
    loadCalls,   \* number of joblib.load calls made so far
    handed,      \* every handle load_model has returned to a caller
    failedOnce,  \* some load_model call has returned None
    \* ---- per-session state (Spec) ----
    pc,          \* position of the session's script run
    runs,        \* script runs the session has started
    model,       \* the run's `model` variable (None until load_model returns)
    call,        \* what this run's load_model call did
    submitted,   \* value of st.form_submit_button in this run
    widgets,     \* the form's values in this run
    input_data,  \* the rows of the DataFrame built at line 122, <<>> before
    prediction,  \* <<model.predict(input_data)[0]>>, or <<>> before the call
    proba,       \* model.predict_proba(input_data)[0], or <<>> before the call
    modelCalls,  \* records handed to predict / predict_proba in this run
    elements,    \* what the run has rendered so far
    uncaught,    \* the exception that ended the run, or "none"
    hadFailure,  \* an earlier run of the session reported a prediction failure
    \* ---- SpecClean ----
    heap,        \* DataFrames by reference
    argRef,      \* the table passed to the first clean_famhist call
    argValue,    \* its content at the time of the call
    outRefs,     \* what the successive clean_famhist calls returned
    cleanOutcome \* how the last clean_famhist call ended

appVars == <<disk, cache, lock, existsCalls, loadCalls, handed, failedOnce,
             pc, runs, model, call, submitted, widgets, input_data,
             prediction, proba, modelCalls, elements, uncaught, hadFailure>>
cleanVars == <<heap, argRef, argValue, outRefs, cleanOutcome>>
vars == <<appVars, cleanVars>>

-----------------------------------------------------------------------------
(* Strings are sequences of one-character strings.                         *)

Str_present == <<"p", "r", "e", "s", "e", "n", "t">>
Str_absent == <<"a", "b", "s", "e", "n", "t">>
Str_Present == <<"P", "r", "e", "s", "e", "n", "t">>
Str_Absent == <<"A", "b", "s", "e", "n", "t">>
Str_unknown == <<"u", "n", "k", "n", "o", "w", "n">>

\* The characters str.strip() removes (two of them stand for the class).
Whitespace == {" ", "\t"}

UpperToLower ==
    [P |-> "p", R |-> "r", E |-> "e", S |-> "s", N |-> "n", T |-> "t",
     A |-> "a", B |-> "b", U |-> "u", K |-> "k", O |-> "o", W |-> "w"]

LowerChar(c) == IF c \in DOMAIN UpperToLower THEN UpperToLower[c] ELSE c

UpperChar(c) ==
    IF \E u \in DOMAIN UpperToLower : UpperToLower[u] = c
    THEN CHOOSE u \in DOMAIN UpperToLower : UpperToLower[u] = c
    ELSE c

\* str.lower()
StrLower(s) == [i \in 1..Len(s) |-> LowerChar(s[i])]

RECURSIVE LStrip(_)
LStrip(s) == IF s # <<>> /\ Head(s) \in Whitespace THEN LStrip(Tail(s)) ELSE s

RECURSIVE RStrip(_)
RStrip(s) ==
    IF s # <<>> /\ s[Len(s)] \in Whitespace
    THEN RStrip(SubSeq(s, 1, Len(s) - 1))
    ELSE s

\* str.strip()
StrStrip(s) == RStrip(LStrip(s))

\* The dict passed to Series.replace at line 22, as (key, value) pairs.
ReplaceMap == {<<Str_present, Str_present>>, <<Str_absent, Str_absent>>}

\* Series.replace(dict) on one value: exact-match lookup, else unchanged.
StrReplace(s) ==
    IF \E kv \in ReplaceMap : kv[1] = s
    THEN (CHOOSE kv \in ReplaceMap : kv[1] = s)[2]
    ELSE s

\* Lines 18-23 on one value of the column: .str.strip().str.lower().replace(..)
NormalizeValue(s) == StrReplace(StrLower(StrStrip(s)))

\* Lines 18-23 on the whole column.
NormalizeColumn(col) == [i \in 1..Len(col) |-> NormalizeValue(col[i])]

-----------------------------------------------------------------------------
(* clean_famhist on DataFrames held by reference (SpecClean).              *)

\* Longest run of whitespace put before or after a value in the inputs.
MaxPad == 1

\* Every casing of a lower-case word.
Casings(word) ==
    {[i \in 1..Len(word) |-> IF mask[i] THEN UpperChar(word[i]) ELSE word[i]] :
        mask \in [1..Len(word) -> BOOLEAN]}

Pads == UNION {[1..k -> Whitespace] : k \in 0..MaxPad}

\* Every casing and whitespace variant of "present" and "absent".
Variants ==
    {l \o w \o r : l \in Pads, r \in Pads,
                   w \in Casings(Str_present) \cup Casings(Str_absent)}

\* Values that are no variant of either category.
OtherValues ==
    {Str_unknown, <<>>, <<" ">>,
     <<"p", "r", "e", " ", "s", "e", "n", "t">>,
     <<"A", "B", "S", "E", "N", "T", "E">>}

CleanInputs == Variants \cup OtherValues

IsCategory(s) == s \in {Str_present, Str_absent}

\* X = X  (no copy: the function works on the caller's table)
DataFrameAlias(h, X) == [heap |-> h, ref |-> X]

\* X = X.copy()  (line 17): a new table with the same content.  The heap is
\* the sequence of the tables allocated so far; a reference is an index.
DataFrameCopy(h, X) == [heap |-> Append(h, h[X]), ref |-> Len(h) + 1]

\* clean_famhist(X), lines 15-24: the heap after the call and the table returned.
clean_famhist(h, X) ==
    LET c == DataFrameCopy(h, X)
    IN  [heap |-> [c.heap EXCEPT ![c.ref].famhist = NormalizeColumn(@)],
         ret  |-> c.ref]

CleanIdle ==
    /\ heap = <<>>
    /\ argRef = 0
    /\ argValue = [famhist |-> <<>>]
    /\ outRefs = <<>>
    /\ cleanOutcome = "none"

\* A caller holds a one-row table whose famhist is any of the inputs.
CleanInit ==
    /\ \E x \in CleanInputs :
          /\ heap = <<[famhist |-> <<x>>]>>
          /\ argValue = [famhist |-> <<x>>]
    /\ argRef = 1
    /\ outRefs = <<>>
    /\ cleanOutcome = "none"

\* Y = clean_famhist(X)
CleanCall ==
    /\ outRefs = <<>>
    /\ LET res == clean_famhist(heap, argRef)
       IN  /\ heap' = res.heap
           /\ outRefs' = <<res.ret>>
    /\ cleanOutcome' = "returned"
    /\ UNCHANGED <<argRef, argValue>>

\* Z = clean_famhist(Y)
CleanAgain ==
    /\ Len(outRefs) = 1
    /\ LET res == clean_famhist(heap, outRefs[1])
       IN  /\ heap' = res.heap
           /\ outRefs' = Append(outRefs, res.ret)
    /\ cleanOutcome' = "returned"
    /\ UNCHANGED <<argRef, argValue>>

-----------------------------------------------------------------------------
(* The script (Spec): constants and values.                                *)

\* Sessions of the one server process, each running the script on its own thread.
NumSessions == 2
\* Script runs the process serves, all sessions together.
MaxRuns == 3

Sessions == 1..NumSessions

model_path == "Model3.pkl"

\* Values of the `model` variable: None, or a handle.  Handles are numbered
\* (from 1) by the joblib.load call that created them, so two
\* deserialisations give two distinct instances.
None == 0

DiskStates == {"absent", "corrupt", "valid"}

\* st.number_input defaults and the one maximum the inputs use (the floats
\* have no fraction and are written as integers).
SbpMax == 250
SbpDefault == 138
LdlDefault == 440
AdiposityDefault == 2326
ObesityDefault == 2373
AgeDefault == 43

\* st.selectbox options, line 112.
FamhistOptions == {Str_Present, Str_Absent}

DefaultWidgets ==
    [sbp |-> SbpDefault, ldl |-> LdlDefault, adiposity |-> AdiposityDefault,
     obesity |-> ObesityDefault, age |-> AgeDefault, famhist |-> Str_Present]

\* What a user can have in the form when submitting: the widgets keep every
\* number within [min, max] and famhist within the options.
FormValues ==
    {[sbp |-> a, ldl |-> LdlDefault, adiposity |-> AdiposityDefault,
      obesity |-> ObesityDefault, age |-> g, famhist |-> f] :
        a \in {SbpDefault, SbpMax}, g \in {AgeDefault}, f \in FamhistOptions}

\* Probabilities are in 1/10000.  What the artifact's predict_proba can return
\* for one row: a two-class distribution.
ProbaValues ==
    {<<6667, 3333>>, <<5000, 5000>>, <<0, 10000>>}

\* What the artifact's predict can return for one row.
LabelValues == {0, 1}

\* Exceptions a model call can raise.
ModelErrors == {"ValueError"}

Max2(v) == IF v[1] >= v[2] THEN v[1] ELSE v[2]

\* f"{x:.1%}": x as a percentage rounded to one decimal, kept in tenths of a
\* percent (667 is "66.7%").
FormatPct(x) == (x * 1000 + 5000) \div 10000

\* One rendered element.
Elem(type, key, text, pct) == [type |-> type, key |-> key, text |-> text, pct |-> pct]

Range(seq) == {seq[i] : i \in 1..Len(seq)}

\* What one load_model() call did: waited for the compute lock, was served
\* from the cache, what os.path.exists said, whether joblib.load was called
\* and what it raised.
NoCall ==
    [waited |-> FALSE, hit |-> FALSE, existed |-> "unset",
     deserialized |-> FALSE, raised |-> "none"]

-----------------------------------------------------------------------------
(* The script (Spec): state after the server process has started.          *)

AppInit ==
    /\ disk \in DiskStates
    /\ cache = <<>>
    /\ lock = {}
    /\ existsCalls = 0
    /\ loadCalls = 0
    /\ handed = {}
    /\ failedOnce = FALSE
    /\ pc = [s \in Sessions |-> "idle"]
    /\ runs = [s \in Sessions |-> 0]
    /\ model = [s \in Sessions |-> None]
    /\ call = [s \in Sessions |-> NoCall]
    /\ submitted = [s \in Sessions |-> FALSE]
    /\ widgets = [s \in Sessions |-> DefaultWidgets]
    /\ input_data = [s \in Sessions |-> <<>>]
    /\ prediction = [s \in Sessions |-> <<>>]
    /\ proba = [s \in Sessions |-> <<>>]
    /\ modelCalls = [s \in Sessions |-> 0]
    /\ elements = [s \in Sessions |-> <<>>]
    /\ uncaught = [s \in Sessions |-> "none"]
    /\ hadFailure = [s \in Sessions |-> FALSE]

process == <<disk, cache, lock, existsCalls, loadCalls, handed, failedOnce>>
request == <<submitted, widgets, input_data, prediction, proba, modelCalls>>

\* The artifact is a file: it can be put, removed or overwritten at any time.
DiskChange ==
    /\ \E d \in DiskStates \ {disk} : disk' = d
    /\ UNCHANGED <<cache, lock, existsCalls, loadCalls, handed, failedOnce>>
    /\ UNCHANGED <<pc, runs, model, call, request, elements, uncaught, hadFailure>>
    /\ UNCHANGED cleanVars

RECURSIVE TotalRuns(_)
TotalRuns(S) ==
    IF S = {} THEN 0
    ELSE LET s == CHOOSE x \in S : TRUE IN runs[s] + TotalRuns(S \ {s})

\* Streamlit runs the script from the top: on the session's first connection
\* (button not pressed), on a plain rerun, or on a press of the form's submit
\* button, which delivers the form's values.
StartRun(s) ==
    /\ pc[s] = "idle"
    /\ TotalRuns(Sessions) < MaxRuns
    /\ \E sub \in BOOLEAN, w \in FormValues :
          /\ runs[s] = 0 => ~sub
          /\ ~sub => w = widgets[s]
          /\ submitted' = [submitted EXCEPT ![s] = sub]
          /\ widgets' = [widgets EXCEPT ![s] = w]
    /\ runs' = [runs EXCEPT ![s] = @ + 1]
    /\ pc' = [pc EXCEPT ![s] = "load"]
    /\ model' = [model EXCEPT ![s] = None]
    /\ call' = [call EXCEPT ![s] = NoCall]
    /\ input_data' = [input_data EXCEPT ![s] = <<>>]
    /\ prediction' = [prediction EXCEPT ![s] = <<>>]
    /\ proba' = [proba EXCEPT ![s] = <<>>]
    /\ modelCalls' = [modelCalls EXCEPT ![s] = 0]
    /\ elements' = [elements EXCEPT ![s] = <<Elem("title", "", "", -1)>>]
    /\ uncaught' = [uncaught EXCEPT ![s] = "none"]
    /\ hadFailure' = [hadFailure EXCEPT ![s] =
                        @ \/ \E e \in Range(elements[s]) :
                                e.type = "error" /\ e.key = "prediction"]
    /\ UNCHANGED process
    /\ UNCHANGED cleanVars

-----------------------------------------------------------------------------
(* load_model() under @st.cache_resource, lines 27-39.                     *)
(* The decorator keeps one entry for the argument-less function: a call    *)
(* returns the entry if there is one; otherwise it takes the cache's       *)
(* compute lock, looks again, runs the function, stores what it returned   *)
(* (None included) together with the elements it rendered, and replays     *)
(* those elements on every later hit.                                      *)

\* load_model() returns v to the script, having rendered msgs.
LoadReturns(s, v, msgs, c) ==
    /\ model' = [model EXCEPT ![s] = v]
    /\ elements' = [elements EXCEPT ![s] = @ \o msgs]
    /\ call' = [call EXCEPT ![s] = c]
    /\ handed' = IF v # None THEN handed \cup {v} ELSE handed
    /\ failedOnce' = (failedOnce \/ v = None)
    /\ pc' = [pc EXCEPT ![s] = "check_model"]

\* Stores only handles: a None result is computed again by the next call.
CacheStoreHandlesOnly(v, msgs) ==
    IF v = None THEN <<>> ELSE <<[value |-> v, msgs |-> msgs]>>

\* The entry stored for a computed result.
CacheStore(v, msgs) == <<[value |-> v, msgs |-> msgs]>>

\* No mutual exclusion: any caller may start computing.
LockIgnored == TRUE

\* The compute lock can be taken.
LockFree == lock = {}

\* Fast path: the entry is read without the lock.
CacheRead(s) ==
    /\ pc[s] = "load"
    /\ IF cache # <<>>
       THEN /\ LoadReturns(s, cache[1].value, cache[1].msgs,
                           [call[s] EXCEPT !.hit = TRUE])
       ELSE /\ pc' = [pc EXCEPT ![s] = "lock"]
            /\ UNCHANGED <<model, elements, call, handed, failedOnce>>
    /\ UNCHANGED <<disk, cache, lock, existsCalls, loadCalls>>
    /\ UNCHANGED <<runs, request, uncaught, hadFailure>>
    /\ UNCHANGED cleanVars

AcquireLock(s) ==
    /\ pc[s] = "lock"
    /\ LockFree
    /\ lock' = lock \cup {s}
    /\ call' = [call EXCEPT ![s].waited = TRUE]
    /\ pc' = [pc EXCEPT ![s] = "recheck"]
    /\ UNCHANGED <<disk, cache, existsCalls, loadCalls, handed, failedOnce>>
    /\ UNCHANGED <<runs, model, request, elements, uncaught, hadFailure>>
    /\ UNCHANGED cleanVars

\* Under the lock: another caller may have computed the entry meanwhile.
Recheck(s) ==
    /\ pc[s] = "recheck"
    /\ IF cache # <<>>
       THEN /\ LoadReturns(s, cache[1].value, cache[1].msgs,
                           [call[s] EXCEPT !.hit = TRUE])
            /\ lock' = lock \ {s}
       ELSE /\ pc' = [pc EXCEPT ![s] = "exists"]
            /\ UNCHANGED <<model, elements, call, handed, failedOnce, lock>>
    /\ UNCHANGED <<disk, cache, existsCalls, loadCalls>>
    /\ UNCHANGED <<runs, request, uncaught, hadFailure>>
    /\ UNCHANGED cleanVars

\* st.error(f"Fichier {model_path} introuvable!")
NotFoundElem == Elem("error", "introuvable", model_path, -1)

\* st.error(f"Erreur lors du chargement du modele : {e}")
LoadErrorElem(cause) == Elem("error", "chargement", cause, -1)

\* The message is shown but the function goes on to joblib.load.
NotFoundFallsThrough(s) ==
    /\ elements' = [elements EXCEPT ![s] = Append(@, NotFoundElem)]
    /\ call' = [call EXCEPT ![s].existed = "no"]
    /\ pc' = [pc EXCEPT ![s] = "deserialize"]
    /\ UNCHANGED <<cache, lock, model, handed, failedOnce>>

\* Lines 33-34: st.error(...); return None.
NotFoundReturn(s) ==
    /\ cache' = CacheStore(None, <<NotFoundElem>>)
    /\ lock' = lock \ {s}
    /\ LoadReturns(s, None, <<NotFoundElem>>, [call[s] EXCEPT !.existed = "no"])

\* Line 32: if not os.path.exists(model_path)
CheckExists(s) ==
    /\ pc[s] = "exists"
    /\ existsCalls' = existsCalls + 1
    /\ IF disk = "absent"
       THEN NotFoundReturn(s)
       ELSE /\ call' = [call EXCEPT ![s].existed = "yes"]
            /\ pc' = [pc EXCEPT ![s] = "deserialize"]
            /\ UNCHANGED <<cache, lock, model, elements, handed, failedOnce>>
    /\ UNCHANGED <<disk, loadCalls>>
    /\ UNCHANGED <<runs, request, uncaught, hadFailure>>
    /\ UNCHANGED cleanVars

\* No try/except: the exception leaves load_model and ends the run; nothing
\* is stored for a call that raised.
LoadFailedUncaught(s, cause) ==
    /\ uncaught' = [uncaught EXCEPT ![s] = cause]
    /\ call' = [call EXCEPT ![s].deserialized = TRUE, ![s].raised = cause]
    /\ pc' = [pc EXCEPT ![s] = "idle"]
    /\ lock' = lock \ {s}
    /\ UNCHANGED <<cache, model, elements, handed, failedOnce>>

\* Lines 37-39: except Exception as e: st.error(...); return None.
LoadFailed(s, cause) ==
    /\ cache' = CacheStore(None, <<LoadErrorElem(cause)>>)
    /\ lock' = lock \ {s}
    /\ LoadReturns(s, None, <<LoadErrorElem(cause)>>,
                   [call[s] EXCEPT !.deserialized = TRUE, !.raised = cause])
    /\ UNCHANGED uncaught

\* Lines 35-36: model = joblib.load(model_path); return model.
LoadSucceeded(s, h) ==
    /\ cache' = CacheStore(h, <<>>)
    /\ lock' = lock \ {s}
    /\ LoadReturns(s, h, <<>>, [call[s] EXCEPT !.deserialized = TRUE])
    /\ UNCHANGED uncaught

\* What joblib.load raises on what it finds at the path (the file may have
\* changed since the existence check).
LoadError == IF disk = "corrupt" THEN "UnpicklingError" ELSE "FileNotFoundError"

Deserialize(s) ==
    /\ pc[s] = "deserialize"
    /\ loadCalls' = loadCalls + 1
    /\ IF disk = "valid"
       THEN LoadSucceeded(s, loadCalls + 1)
       ELSE LoadFailed(s, LoadError)
    /\ UNCHANGED <<disk, existsCalls>>
    /\ UNCHANGED <<runs, request, hadFailure>>
    /\ UNCHANGED cleanVars

-----------------------------------------------------------------------------
(* The rest of the script, lines 52-205.                                   *)

\* The guard is never taken: the script goes on without a model.
ModelMissingIgnored(s) == FALSE

\* Line 54: if model is None
ModelMissing(s) == model[s] = None

\* Lines 52-55: model = load_model(); if model is None: st.stop()
\* st.stop() ends the run at once: nothing below is executed.
CheckModel(s) ==
    /\ pc[s] = "check_model"
    /\ pc' = [pc EXCEPT ![s] = IF ModelMissing(s) THEN "idle" ELSE "form"]
    /\ UNCHANGED process
    /\ UNCHANGED <<runs, model, call, request, elements, uncaught, hadFailure>>
    /\ UNCHANGED cleanVars

\* Lines 61-120: the form is rendered; `submitted` decides what follows.
RenderForm(s) ==
    /\ pc[s] = "form"
    /\ elements' = [elements EXCEPT ![s] = Append(@, Elem("form", "patient_form", "", -1))]
    /\ pc' = [pc EXCEPT ![s] = IF submitted[s] THEN "build" ELSE "footer"]
    /\ UNCHANGED process
    /\ UNCHANGED <<runs, model, call, request, uncaught, hadFailure>>
    /\ UNCHANGED cleanVars

\* The selected option is stored as it is.
FamhistCellRaw(v) == v

\* Line 126: "famhist": [famhist.lower()]
FamhistCell(v) == StrLower(v)

\* Lines 122-129: the one-row DataFrame, columns in the order written.
InputData(w) ==
    <<[sbp |-> w.sbp, ldl |-> w.ldl, adiposity |-> w.adiposity,
       famhist |-> FamhistCell(w.famhist), obesity |-> w.obesity, age |-> w.age]>>

BuildRecord(s) ==
    /\ pc[s] = "build"
    /\ input_data' = [input_data EXCEPT ![s] = InputData(widgets[s])]
    /\ pc' = [pc EXCEPT ![s] = "predict"]
    /\ UNCHANGED process
    /\ UNCHANGED <<runs, model, call, submitted, widgets, prediction, proba, modelCalls>>
    /\ UNCHANGED <<elements, uncaught, hadFailure>>
    /\ UNCHANGED cleanVars

\* st.error(f"Erreur lors de la prediction : {e}")
PredictionErrorElem(cause) == Elem("error", "prediction", cause, -1)

\* No try/except around the model calls: the exception ends the run.
PredictionPropagates(s, cause) ==
    /\ uncaught' = [uncaught EXCEPT ![s] = cause]
    /\ pc' = [pc EXCEPT ![s] = "idle"]
    /\ UNCHANGED elements

\* Lines 194-195: except Exception as e: st.error(...); the script goes on
\* to the footer.
PredictionFailed(s, cause) ==
    /\ elements' = [elements EXCEPT ![s] = Append(@, PredictionErrorElem(cause))]
    /\ pc' = [pc EXCEPT ![s] = "footer"]
    /\ UNCHANGED uncaught

\* Line 136: prediction = model.predict(input_data)[0]
\* The artifact is opaque: it returns a class or raises.
Predict(s) ==
    /\ pc[s] = "predict"
    /\ modelCalls' = [modelCalls EXCEPT ![s] = @ + 1]
    /\ \/ \E v \in LabelValues :
            /\ prediction' = [prediction EXCEPT ![s] = <<v>>]
            /\ pc' = [pc EXCEPT ![s] = "predict_proba"]
            /\ UNCHANGED <<elements, uncaught>>
       \/ \E e \in ModelErrors :
            /\ PredictionFailed(s, e)
            /\ UNCHANGED prediction
    /\ UNCHANGED process
    /\ UNCHANGED <<runs, model, call, submitted, widgets, input_data, proba, hadFailure>>
    /\ UNCHANGED cleanVars

\* Lines 137-138: proba = model.predict_proba(input_data)[0]
\* A second, separate call on the same record; nothing ties what it returns
\* to what predict returned.
PredictProba(s) ==
    /\ pc[s] = "predict_proba"
    /\ modelCalls' = [modelCalls EXCEPT ![s] = @ + 1]
    /\ \/ \E v \in ProbaValues :
            /\ proba' = [proba EXCEPT ![s] = v]
            /\ pc' = [pc EXCEPT ![s] = "display"]
            /\ UNCHANGED <<elements, uncaught>>
       \/ \E e \in ModelErrors :
            /\ PredictionFailed(s, e)
            /\ UNCHANGED proba
    /\ UNCHANGED process
    /\ UNCHANGED <<runs, model, call, submitted, widgets, input_data, prediction, hadFailure>>
    /\ UNCHANGED cleanVars

\* The two branches exchanged.
RiskLabelSwapped(p) == IF p = 1 THEN "RISQUE FAIBLE" ELSE "RISQUE ELEVE"

\* Line 149: "RISQUE ELEVE" if prediction == 1 else "RISQUE FAIBLE"
RiskLabel(p) == IF p = 1 THEN "RISQUE ELEVE" ELSE "RISQUE FAIBLE"

\* Lines 141-192: three metrics, the alert keyed by the prediction, the bar.
Results(p, pr) ==
    <<Elem("metric", "Prediction", RiskLabel(p), -1),
      Elem("metric", "Probabilite CHD", "", FormatPct(pr[2])),
      Elem("metric", "Confiance", "", FormatPct(Max2(pr))),
      IF p = 1
      THEN Elem("error", "RISQUE ELEVE DETECTE", "", FormatPct(pr[2]))
      ELSE Elem("success", "RISQUE FAIBLE", "", FormatPct(pr[2])),
      Elem("progress", "Niveau de risque", "", pr[2])>>

Display(s) ==
    /\ pc[s] = "display"
    /\ elements' = [elements EXCEPT ![s] = @ \o Results(prediction[s][1], proba[s])]
    /\ pc' = [pc EXCEPT ![s] = "footer"]
    /\ UNCHANGED process
    /\ UNCHANGED <<runs, model, call, request, uncaught, hadFailure>>
    /\ UNCHANGED cleanVars

\* Lines 198-205: the footer ends the run.
Footer(s) ==
    /\ pc[s] = "footer"
    /\ elements' = [elements EXCEPT ![s] = Append(@, Elem("footer", "", "", -1))]
    /\ pc' = [pc EXCEPT ![s] = "idle"]
    /\ UNCHANGED process
    /\ UNCHANGED <<runs, model, call, request, uncaught, hadFailure>>
    /\ UNCHANGED cleanVars

-----------------------------------------------------------------------------
(* Specifications.                                                         *)

Init == AppInit /\ CleanIdle

Next ==
    \/ DiskChange
    \/ \E s \in Sessions :
          \/ StartRun(s)
          \/ CacheRead(s)
          \/ AcquireLock(s)
          \/ Recheck(s)
          \/ CheckExists(s)
          \/ Deserialize(s)
          \/ CheckModel(s)
          \/ RenderForm(s)
          \/ BuildRecord(s)
          \/ Predict(s)
          \/ PredictProba(s)
          \/ Display(s)
          \/ Footer(s)

Spec == Init /\ [][Next]_vars

InitClean == AppInit /\ disk = "valid" /\ CleanInit

NextClean ==
    \/ CleanCall /\ UNCHANGED appVars
    \/ CleanAgain /\ UNCHANGED appVars

SpecClean == InitClean /\ [][NextClean]_vars

-----------------------------------------------------------------------------
(* Properties.                                                             *)

Shown(s) == Range(elements[s])

\* The run of s has rendered the three metrics.
ResultsShown(s) == \E e \in Shown(s) : e.type = "metric"

\* A model call of this run raised: more calls were made than results came back.
RaisedInRun(s) == modelCalls[s] > Len(prediction[s]) + Len(proba[s]) \div 2

\* C1: over any interleaving of load_model() calls in one process, joblib.load
\* runs at most once and every caller that gets a handle gets the same one.
C1_LoadedOnce ==
    /\ loadCalls <= 1
    /\ Cardinality(handed) <= 1
    /\ \A s \in Sessions : model[s] # None => handed = {model[s]}

\* Two sessions made their first call together: one deserialised, the other
\* waited for the lock and was served the same handle.
C1_Witness ==
    \E s, t \in Sessions :
        /\ s # t
        /\ call[s].deserialized /\ model[s] # None
        /\ call[t].waited /\ call[t].hit /\ model[t] = model[s]

\* C2: when os.path.exists finds no file, load_model reports the missing file
\* with its path, returns None and never calls joblib.load.
C2_NotFoundNoLoad ==
    \A s \in Sessions :
        call[s].existed = "no" =>
            /\ pc[s] # "deserialize"
            /\ ~call[s].deserialized
            /\ model[s] = None
            /\ \E e \in Shown(s) :
                  e.type = "error" /\ e.key = "introuvable" /\ e.text = model_path
            /\ ~\E e \in Shown(s) : e.key = "chargement"

C2_Witness ==
    \E s \in Sessions :
        call[s].existed = "no" /\ pc[s] = "check_model" /\ loadCalls = 0

\* C3: when the file exists but joblib.load raises, the exception does not
\* leave load_model: an error carrying the cause is shown, it is not the
\* missing-file error, and None is returned.
C3_CorruptWrapped ==
    \A s \in Sessions :
        call[s].raised # "none" =>
            /\ uncaught[s] = "none"
            /\ model[s] = None
            /\ \E e \in Shown(s) :
                  e.type = "error" /\ e.key = "chargement" /\ e.text = call[s].raised
            /\ ~\E e \in Shown(s) : e.key = "introuvable"

C3_Witness ==
    \E s \in Sessions :
        /\ call[s].existed = "yes"
        /\ call[s].raised = "UnpicklingError"
        /\ pc[s] = "check_model"

\* C4: a run whose load returned no handle stops before the form: no form, no
\* record, no model call; and every model call is made on a handle that
\* load_model returned in the same run.
C4_NoModelNoPrediction ==
    \A s \in Sessions :
        /\ model[s] = None =>
              /\ pc[s] \in {"idle", "load", "lock", "recheck", "exists",
                            "deserialize", "check_model"}
              /\ ~\E e \in Shown(s) : e.type = "form"
              /\ input_data[s] = <<>>
              /\ modelCalls[s] = 0
        /\ (modelCalls[s] > 0 \/ pc[s] \in {"predict", "predict_proba"}) =>
              model[s] \in handed

\* A submission arrives when the cached load result is None: the run has
\* ended at st.stop() with the load error alone on the page.
C4_Witness ==
    \E s \in Sessions :
        /\ submitted[s] /\ pc[s] = "idle" /\ call[s].hit /\ model[s] = None
        /\ \E e \in Shown(s) : e.type = "error"

\* C5: an exception from predict or predict_proba is caught and shown as a
\* prediction error carrying the cause; no label, probability or confidence
\* is shown for that request; the run goes on to the footer and ends normally.
C5_PredictionFailureReported ==
    \A s \in Sessions :
        RaisedInRun(s) =>
            /\ uncaught[s] = "none"
            /\ \E e \in Shown(s) :
                  e.type = "error" /\ e.key = "prediction" /\ e.text \in ModelErrors
            /\ ~\E e \in Shown(s) : e.type \in {"metric", "success", "progress"}
            /\ pc[s] \in {"footer", "idle"}
            /\ pc[s] = "idle" => \E e \in Shown(s) : e.type = "footer"

\* A session whose earlier submission failed in predict_proba or predict has
\* a later submission processed to its results.
C5_Witness ==
    \E s \in Sessions :
        hadFailure[s] /\ submitted[s] /\ pc[s] = "idle" /\ ResultsShown(s)

\* C7: whenever a record is handed to predict or predict_proba its famhist is
\* trimmed, lower-case and exactly "present" or "absent".
C7_FamhistNormalized ==
    \A s \in Sessions :
        (pc[s] \in {"predict", "predict_proba"} \/ modelCalls[s] > 0) =>
            /\ Len(input_data[s]) = 1
            /\ LET f == input_data[s][1].famhist
               IN  /\ StrStrip(f) = f
                   /\ StrLower(f) = f
                   /\ f \in {Str_present, Str_absent}

C7_Witness ==
    \E s \in Sessions :
        /\ modelCalls[s] = 2
        /\ widgets[s].famhist = Str_Absent
        /\ input_data[s][1].famhist = Str_absent

\* C8 as claimed: whenever results are shown, the label is the high-risk one
\* exactly when proba[1] is the maximum entry of the probability vector.
C8_LabelAgreesWithProba ==
    \A s \in Sessions :
        ResultsShown(s) =>
            \A e \in Shown(s) :
                (e.type = "metric" /\ e.key = "Prediction") =>
                    (e.text = "RISQUE ELEVE" <=> proba[s][2] = Max2(proba[s]))

\* C8 as amended: whenever results are shown, the label is the high-risk one
\* exactly when predict returned 1, the probability shown is proba[1] and the
\* confidence shown is the maximum entry, both as one-decimal percentages.
C8_LabelFollowsPredict ==
    \A s \in Sessions :
        ResultsShown(s) =>
            /\ prediction[s] # <<>> /\ proba[s] # <<>>
            /\ \A e \in Shown(s) :
                  /\ (e.type = "metric" /\ e.key = "Prediction") =>
                        (e.text = "RISQUE ELEVE" <=> prediction[s][1] = 1)
                  /\ (e.type = "metric" /\ e.key = "Probabilite CHD") =>
                        e.pct = FormatPct(proba[s][2])
                  /\ (e.type = "metric" /\ e.key = "Confiance") =>
                        e.pct = FormatPct(Max2(proba[s]))
                  /\ e.type = "success" => prediction[s][1] # 1
            /\ \E e \in Shown(s) : e.type = "metric" /\ e.key = "Prediction"

\* Low risk is shown beside a probability of 50.0% that is also the confidence.
C8_Witness ==
    \E s \in Sessions :
        /\ ResultsShown(s)
        /\ prediction[s] = <<0>>
        /\ proba[s] = <<5000, 5000>>
        /\ \E e \in Shown(s) : e.type = "success" /\ e.pct = 500

\* C10: once a load_model() call has returned None, no later call looks at
\* the disk again and none returns a handle, whatever the disk holds by then.
C10_FailureMemoized ==
    [][failedOnce =>
          /\ existsCalls' = existsCalls
          /\ loadCalls' = loadCalls
          /\ cache' = cache
          /\ \A s \in Sessions : model'[s] = None]_vars

\* A valid artifact is on disk, yet a later run was served the cached None
\* and has stopped.
C10_Witness ==
    \E s \in Sessions :
        /\ disk = "valid"
        /\ call[s].hit /\ ~call[s].waited
        /\ model[s] = None
        /\ pc[s] = "idle"

\* C9: for every casing and whitespace variant of "present" or "absent",
\* cleaning the cleaned table changes nothing, and no call modifies the table
\* it was given.
C9_CleanIdempotent ==
    /\ Len(outRefs) >= 1 => heap[argRef] = argValue
    /\ Len(outRefs) = 2 =>
          /\ heap[outRefs[1]].famhist = NormalizeColumn(argValue.famhist)
          /\ argValue.famhist[1] \in Variants =>
                heap[outRefs[2]].famhist = heap[outRefs[1]].famhist

\* Both calls were made on a padded, mixed-case variant.
C9_Witness ==
    /\ Len(outRefs) = 2
    /\ argValue.famhist[1] = <<" ">> \o Str_Present \o <<"\t">>
    /\ heap[outRefs[2]].famhist = <<Str_present>>

====
